---- MODULE Spec2Model ----
(***************************************************************************)
(* Review API server (src/app.py): a Flask service over one MySQL table,   *)
(* `reviews`, reached through a pool of five connections.                  *)
(*                                                                         *)
(* The model keeps the committed table, the table's AUTO_INCREMENT         *)
(* counter, the server clock that NOW() reads, the pool's queue of idle    *)
(* connections and the requests in flight.  Every handler is cut at its    *)
(* calls into the pool and the database: get_connection, each              *)
(* cursor.execute, commit, rollback and the finally block's close.         *)
(* Text is a sequence of one-character strings, so that strip() and int()  *)
(* are computed rather than assumed.                                       *)
(***************************************************************************)
EXTENDS Integers, Sequences, FiniteSets, Bags, TLC

VARIABLES
    records,    \* committed rows of table reviews
    nextId,     \* AUTO_INCREMENT counter of reviews.id
    clock,      \* server time in seconds, what NOW() returns
    pool,       \* number of idle connections queued in connection_pool
    reqs,       \* bag of the requests in flight (one per handler thread)
    workers,    \* number of handler threads of the deployment
    client,     \* the request bodies and limit arguments the clients send
    resp,       \* the response returned by the last step, NoResp if none
    returned,   \* ids returned so far by 201 responses
    deleted,    \* ids whose DELETE has returned 200
    lastAdded   \* the latest committed INSERT, while no other write followed

vars == <<records, nextId, clock, pool, reqs, workers, client, resp, returned, deleted, lastAdded>>

----------------------------------------------------------------------------
(* Bounds of the model *)

MaxId == 2          \* INSERTs are executed while the counter is <= MaxId
MaxTicks == 1       \* seconds the clock advances
MaxWorkers == 2     \* handler threads of the concurrent specification

(* Constants of the program *)

PoolSize == 5
DefaultLimit == 50
MinLimit == 1
MaxLimit == 100
MinRating == 1
MaxRating == 5
StartClock == 59    \* the second of the minute at which the model starts
MaxRatings == 3     \* record sets of the statistics specification: every list
                    \* of ratings up to this length,
TieRecords == 8     \* this many records rated 1 or 2 (means that end in 5
                    \* thousandths),
ManyRecords == 107  \* and this many records rated 1 or 2

----------------------------------------------------------------------------
(* JSON values and query-string values.  t is the type, s the text of a   *)
(* string, n the number (tenths for a float, 0/1 for a bool).             *)

JVal(t, s, n) == [t |-> t, s |-> s, n |-> n]
Absent == JVal("absent", <<>>, 0)
JNull == JVal("null", <<>>, 0)
JStr(s) == JVal("str", s, 0)
JInt(n) == JVal("int", <<>>, n)
JFloat(tenths) == JVal("float", <<>>, tenths)
JBool(b) == JVal("bool", <<>>, IF b THEN 1 ELSE 0)

Whitespace == {" ", "\t"}
DigitChars == <<"0", "1", "2", "3", "4", "5", "6", "7", "8", "9">>
IsDigit(c) == \E i \in 1..10 : DigitChars[i] = c
DigitVal(c) == (CHOOSE i \in 1..10 : DigitChars[i] = c) - 1

RECURSIVE lstrip(_)
lstrip(s) == IF s # <<>> /\ Head(s) \in Whitespace THEN lstrip(Tail(s)) ELSE s

RECURSIVE rstrip(_)
rstrip(s) ==
    IF s # <<>> /\ s[Len(s)] \in Whitespace THEN rstrip(SubSeq(s, 1, Len(s) - 1)) ELSE s

\* str.strip()
strip(s) == rstrip(lstrip(s))

RECURSIVE Decimal(_)
Decimal(n) ==
    IF n < 0 THEN <<"-">> \o Decimal(0 - n)
    ELSE IF n < 10 THEN <<DigitChars[n + 1]>>
    ELSE Decimal(n \div 10) \o <<DigitChars[(n % 10) + 1]>>

\* str(value) of a decoded JSON value
PyStr(v) ==
    CASE v.t = "str" -> v.s
      [] v.t = "int" -> Decimal(v.n)
      [] v.t = "float" ->
            IF v.n < 0 THEN <<"-">> \o Decimal((0 - v.n) \div 10) \o <<".">> \o Decimal((0 - v.n) % 10)
            ELSE Decimal(v.n \div 10) \o <<".">> \o Decimal(v.n % 10)
      [] v.t = "bool" -> IF v.n = 1 THEN <<"T", "r", "u", "e">> ELSE <<"F", "a", "l", "s", "e">>
      [] OTHER -> <<"N", "o", "n", "e">>

RECURSIVE DigitsValue(_)
DigitsValue(s) ==
    IF s = <<>> THEN 0 ELSE 10 * DigitsValue(SubSeq(s, 1, Len(s) - 1)) + DigitVal(s[Len(s)])

IntResult(err, n) == [err |-> err, n |-> n]

\* int(text): surrounding whitespace and one sign are accepted, then digits only
ParseInt(s) ==
    LET body == strip(s)
        signed == body # <<>> /\ Head(body) \in {"-", "+"}
        digits == IF signed THEN Tail(body) ELSE body
    IN  IF digits = <<>> \/ \E i \in 1..Len(digits) : ~IsDigit(digits[i])
        THEN IntResult("ValueError", 0)
        ELSE IF signed /\ Head(body) = "-" THEN IntResult("", 0 - DigitsValue(digits))
        ELSE IntResult("", DigitsValue(digits))

\* int(value) of a decoded JSON value: a float is truncated toward zero, a
\* bool is 0 or 1, None raises TypeError
PyInt(v) ==
    CASE v.t = "str" -> ParseInt(v.s)
      [] v.t = "int" -> IntResult("", v.n)
      [] v.t = "bool" -> IntResult("", v.n)
      [] v.t = "float" ->
            IF v.n < 0 THEN IntResult("", 0 - ((0 - v.n) \div 10)) ELSE IntResult("", v.n \div 10)
      [] OTHER -> IntResult("TypeError", 0)

----------------------------------------------------------------------------
(* Request bodies of POST /api/reviews: a JSON object, a value per field, *)
(* Absent for a key the object does not carry.                            *)

required_fields == <<"name", "email", "phone", "rating", "review">>
TextFields == {"name", "email", "phone", "review"}
AllFields == TextFields \cup {"rating", "gender"}

NotSpecified == <<"N", "o", "t", " ", "s", "p", "e", "c", "i", "f", "i", "e", "d">>

\* a body that passes every check: rating 5, no gender
BaseBody ==
    [f \in AllFields |->
        CASE f = "rating" -> JInt(5)
          [] f = "gender" -> Absent
          [] OTHER -> JStr(<<"a">>)]

TextValues ==
    {Absent, JNull, JInt(7), JStr(<<>>), JStr(<<" ">>), JStr(<<"a">>), JStr(<<" ", "a", "\t">>)}
RatingValues ==
    {Absent, JNull, JBool(TRUE), JInt(0), JInt(1), JInt(5), JInt(6), JFloat(37), JFloat(5),
     JStr(<<>>), JStr(<<" ">>), JStr(<<"2">>), JStr(<<" ", "4", " ">>), JStr(<<"a", "b", "c">>),
     JStr(<<"6">>), JStr(<<"3", ".", "5">>), JStr(<<"-", "1">>)}
GenderValues == {Absent, JNull, JStr(<<"F">>)}

BlankValues == {Absent, JStr(<<" ">>)}
BadRatings == {JNull, JInt(6), JStr(<<"a", "b", "c">>)}

With(data, change) == [data EXCEPT ![change[1]] = change[2]]

\* BaseBody with one field changed: name, rating and gender over all their
\* values, the other fields left out or blank
OneChange ==
    {<<"name", v>> : v \in TextValues} \cup {<<"rating", v>> : v \in RatingValues}
    \cup {<<"gender", v>> : v \in GenderValues}
    \cup {<<f, v>> : f \in {"email", "phone", "review"}, v \in BlankValues}

\* ... and with a second field left out besides a field left out or a bad rating
TwoChanges ==
    ({<<required_fields[i], Absent>> : i \in 1..Len(required_fields)}
        \cup {<<"rating", v>> : v \in BadRatings})
    \X {<<required_fields[i], Absent>> : i \in 1..Len(required_fields)}

WideBodies ==
    {With(BaseBody, a) : a \in OneChange}
    \cup {With(With(BaseBody, c[1]), c[2]) : c \in TwoChanges}

\* one body per path through add_review
NarrowBodies ==
    { BaseBody,
      [BaseBody EXCEPT !["email"] = JStr(<<" ">>), !["review"] = Absent],
      [BaseBody EXCEPT !["rating"] = JInt(6)],
      [BaseBody EXCEPT !["rating"] = JStr(<<"a", "b", "c">>)],
      [BaseBody EXCEPT !["rating"] = JNull],
      [BaseBody EXCEPT !["name"] = JInt(7)] }

NoData == [f \in AllFields |-> Absent]

MissingOrEmptyUnstripped(data, field) ==
    \/ data[field] = Absent
    \/ PyStr(data[field]) = <<>>

\* `field not in data or not str(data[field]).strip()`
MissingOrEmpty(data, field) ==
    \/ data[field] = Absent
    \/ strip(PyStr(data[field])) = <<>>

\* index in required_fields of the first field the loop rejects, 0 if none
FirstMissing(data) ==
    IF \E i \in 1..Len(required_fields) : MissingOrEmpty(data, required_fields[i])
    THEN CHOOSE i \in 1..Len(required_fields) :
            /\ MissingOrEmpty(data, required_fields[i])
            /\ \A j \in 1..(i - 1) : ~MissingOrEmpty(data, required_fields[j])
    ELSE 0

Outcome(status, msg, field) == [status |-> status, msg |-> msg, field |-> field]

RatingUnchecked(rating) == TRUE

\* `if rating < 1 or rating > 5:` is the 400
RatingInRange(rating) == ~(rating < MinRating \/ rating > MaxRating)

\* add_review up to get_connection: the response it returns there, or status 0
\* when it goes on to the database
Validate(data) ==
    LET i == FirstMissing(data)
        rating == PyInt(data["rating"])
    IN  IF i # 0 THEN Outcome(400, "Missing or empty field", required_fields[i])
        ELSE IF rating.err = "ValueError" THEN Outcome(400, "Invalid rating value", "")
        ELSE IF rating.err # "" THEN Outcome(500, rating.err, "")
        ELSE IF ~RatingInRange(rating.n) THEN Outcome(400, "Rating must be between 1 and 5", "")
        ELSE Outcome(0, "", "")

\* the .strip() calls that build `values` raise AttributeError on a non-string
ValuesBuild(data) == \A f \in TextFields : data[f].t = "str"

----------------------------------------------------------------------------
(* Rows of table reviews *)

Row(id, name, email, phone, gender, rating, review, created_at) ==
    [id |-> id, name |-> name, email |-> email, phone |-> phone, gender |-> gender,
     rating |-> rating, review |-> review, created_at |-> created_at]

NoRow == Row(0, <<>>, <<>>, <<>>, Absent, 0, <<>>, 0)

\* the row INSERT ... VALUES (%s, ..., NOW()) writes for `data`
InsertedRow(id, data, now) ==
    Row(id,
        strip(data["name"].s),
        strip(data["email"].s),
        strip(data["phone"].s),
        IF data["gender"] = Absent THEN JStr(NotSpecified) ELSE data["gender"],
        PyInt(data["rating"]).n,
        strip(data["review"].s),
        now)

\* str(created_at) as strftime('%Y-%m-%d %H:%M:%S') writes it: minute, then second
strftime(t) == <<t \div 60, t % 60>>

----------------------------------------------------------------------------
(* Queries over the table *)

RowWithId(S, id) == {x \in S : x.id = id}

\* the orders in which ORDER BY created_at DESC may deliver the rows of S:
\* rows of the same second come in any order
OrderedByCreatedAtDesc(S) ==
    {p \in [1..Cardinality(S) -> S] :
        /\ \A i, j \in 1..Cardinality(S) : i # j => p[i] # p[j]
        /\ \A i \in 1..(Cardinality(S) - 1) : p[i].created_at >= p[i + 1].created_at}

LimitIgnored(p, n) == p

\* ... LIMIT %s
Limit(p, n) == SubSeq(p, 1, IF Len(p) < n THEN Len(p) ELSE n)

SelectReviews(S, limit) == {Limit(p, limit) : p \in OrderedByCreatedAtDesc(S)}

\* the loop that rewrites created_at of every fetched row
FormatRows(rows) == [i \in 1..Len(rows) |-> [rows[i] EXCEPT !.created_at = strftime(@)]]

\* sum of rating over the rows of S, one rating value after the other
RECURSIVE SumOfRatings(_, _)
SumOfRatings(values, S) ==
    IF values = {} THEN 0
    ELSE LET v == CHOOSE w \in values : TRUE
         IN  v * Cardinality({x \in S : x.rating = v}) + SumOfRatings(values \ {v}, S)

SumRatings(S) == SumOfRatings({x.rating : x \in S}, S)

\* SELECT COUNT(*)
CountRows(S) == Cardinality(S)

\* SELECT AVG(rating), a DECIMAL of four places held in ten-thousandths,
\* -1 for the NULL of an empty table
AvgRating(S) ==
    IF S = {} THEN 0 - 1
    ELSE (2 * 10000 * SumRatings(S) + CountRows(S)) \div (2 * CountRows(S))

RECURSIVE Pow2(_)
Pow2(k) == IF k = 0 THEN 1 ELSE 2 * Pow2(k - 1)

RECURSIVE Pow2Mod25(_)
Pow2Mod25(k) == IF k = 0 THEN 1 ELSE (2 * Pow2Mod25(k - 1)) % 25

\* the binary exponent e of m / 25: 2^e <= m / 25 < 2^(e + 1)
FloatExponent(m) ==
    CHOOSE e \in (0 - 8)..24 :
        IF e >= 0 THEN 25 * Pow2(e) <= m /\ m < 50 * Pow2(e)
        ELSE 25 <= m * Pow2(0 - e) /\ m * Pow2(0 - e) < 50

\* float(m / 200) against m / 200, m odd: the double keeps 53 bits of
\* m / 25, so what it drops is the remainder of m * 2^(52 - e) by 25;
\* -1 when the double is below the decimal, 1 when above, 0 when equal
FloatError(m) ==
    LET rem == ((m % 25) * Pow2Mod25(52 - FloatExponent(m))) % 25
    IN  IF rem = 0 THEN 0 ELSE IF rem <= 12 THEN 0 - 1 ELSE 1

\* round(float(avg_rating), 2) in hundredths, of a four-place decimal held in
\* ten-thousandths: round() rounds the double that float() made, so a decimal
\* ending in 50 goes where its double lies, and to the even neighbour when
\* the double is exact
Round2(x) ==
    LET q == x \div 100
        r == x % 100
    IN  IF r < 50 THEN q
        ELSE IF r > 50 THEN q + 1
        ELSE IF FloatError(2 * q + 1) < 0 THEN q
        ELSE IF FloatError(2 * q + 1) > 0 THEN q + 1
        ELSE IF q % 2 = 0 THEN q ELSE q + 1

DistOfOnes == [k \in MinRating..MaxRating |-> 1]

\* rating_dist = {'5_star': 0, ..., '1_star': 0}
NoDist == [k \in MinRating..MaxRating |-> 0]

RatingDistShifted(S) ==
    [k \in MinRating..MaxRating |->
        Cardinality({x \in S : x.rating = MinRating + MaxRating - k})]

\* SELECT rating, COUNT(*) ... GROUP BY rating has a row for each rating that
\* occurs; the loop writes its count over the zero of rating_dist
RatingDist(S) ==
    [k \in MinRating..MaxRating |->
        IF \E x \in S : x.rating = k THEN Cardinality({x \in S : x.rating = k})
        ELSE NoDist[k]]

InsertTouchesAll(S, row) == {[x EXCEPT !.created_at = row.created_at] : x \in S} \cup {row}

\* INSERT INTO reviews ... VALUES (...): one new row, the others as they were
InsertInto(S, row) == S \cup {row}

----------------------------------------------------------------------------
(* Requests in flight and responses *)

Request(op, pc, data, q, arg) ==
    [op |-> op, pc |-> pc, data |-> data, q |-> q, arg |-> arg, row |-> NoRow, hit |-> 0,
     rows |-> <<>>, snap |-> {}, total |-> 0, avg |-> 0, dist |-> NoDist,
     status |-> 0, msg |-> "", floor |-> 0, mark |-> 0]

Response(op, status, msg, field, data, q, arg) ==
    [op |-> op, status |-> status, msg |-> msg, field |-> field, data |-> data, q |-> q,
     arg |-> arg,
     id |-> 0, rows |-> <<>>, total |-> 0, avg |-> 0, dist |-> NoDist, floor |-> 0, mark |-> 0]

NoResp == Response("", 0, "", "", NoData, Absent, 0)

\* what the handler returns once its finally block has run
ResponseOf(r) ==
    [Response(r.op, r.status, r.msg, "", r.data, r.q, r.arg) EXCEPT
        !.id = IF r.status = 201 THEN r.row.id ELSE 0,
        !.rows = IF r.status = 200 THEN FormatRows(r.rows) ELSE <<>>,
        !.total = r.total, !.avg = r.avg, !.dist = r.dist,
        !.floor = r.floor, !.mark = r.mark]

NoAdded == [id |-> 0, ret |-> FALSE]

InFlight == BagToSet(reqs)
Holding == BagCardinality(reqs)     \* every request in flight holds a connection

Begin(r) == reqs' = reqs (+) SetToBag({r})
Step(r, r2) == reqs' = (reqs (-) SetToBag({r})) (+) SetToBag({r2})
End(r) == reqs' = reqs (-) SetToBag({r})

Fail(r, pc, msg) == [r EXCEPT !.pc = pc, !.status = 500, !.msg = msg]

autocommitOn == TRUE

\* db_config["autocommit"] and get_connection's conn.autocommit
autocommit == FALSE

\* connection_pool.get_connection(): PoolError on an empty queue; a queued
\* connection that cannot reconnect is put back and the error raised
get_connection == IF pool = 0 THEN {"PoolError"} ELSE {"ok", "InterfaceError"}

\* a statement or a commit either completes or raises mysql.connector.Error
Statement == {"ok", "Error"}

\* the row lock an uncommitted INSERT or DELETE holds on id
Locked(id) ==
    \E q \in InFlight :
        /\ q.pc \in {"commit", "rollback"}
        /\ \/ q.op = "POST" /\ q.row.id = id
           \/ q.op = "DELETE" /\ q.hit = 1 /\ q.arg = id


WideLimits ==
    {Absent, JStr(<<>>), JStr(<<"0">>), JStr(<<"1">>), JStr(<<"2">>), JStr(<<" ", "2">>),
     JStr(<<"5", "0">>), JStr(<<"1", "0", "0">>), JStr(<<"1", "0", "1">>), JStr(<<"-", "1">>),
     JStr(<<"a", "b", "c">>), JStr(<<"1", ".", "5">>)}
NarrowLimits == {Absent, JStr(<<"1", "0", "1">>)}

ReviewIds == 1..MaxId
NarrowIds == {1}

LastIdPlusOne == 1 + (IF records = {} THEN 0
                     ELSE CHOOSE n \in {x.id : x \in records} :
                            \A x \in records : x.id <= n)

\* the value an INSERT takes for id: the table's AUTO_INCREMENT counter
AutoIncrement == nextId

DeleteEvery(S, id) == IF RowWithId(S, id) = {} THEN S ELSE {}

\* DELETE FROM reviews WHERE id = %s
DeleteFrom(S, id) == S \ RowWithId(S, id)

DeleteStatusOk(rowcount) == 200

\* `if cursor.rowcount == 0:` the 404, else the 200
DeleteStatus(rowcount) == IF rowcount = 0 THEN 404 ELSE 200

\* request.args.get('limit', default=50, type=int)
ArgLimit(q) ==
    IF q = Absent \/ ParseInt(q.s).err # "" THEN DefaultLimit ELSE ParseInt(q.s).n

LimitInRange(limit) == ~(limit < MinLimit \/ limit > MaxLimit)

MaxOf(S) == IF S = {} THEN 0 ELSE CHOOSE x \in S : \A y \in S : y <= x

FinallyLeaksOnError(r) ==
    /\ r.pc = "close"
    /\ pool' = IF r.status = 500 THEN pool ELSE pool + 1
    /\ End(r)
    /\ resp' = ResponseOf(r)

\* finally: cursor.close(); conn.close() puts the connection back in the queue
\* (its session reset), and the handler's response goes out
Finally(r) ==
    /\ r.pc = "close"
    /\ pool' = pool + 1
    /\ End(r)
    /\ resp' = ResponseOf(r)

\* except ...: conn.rollback() drops what the transaction wrote
RollbackOf(r) == [r EXCEPT !.pc = "close", !.row = NoRow, !.hit = 0]

----------------------------------------------------------------------------
(* POST /api/reviews: add_review *)

\* validation, get_connection, cursor, and the values tuple
AddReviewBegin(data) ==
    /\ Holding < workers
    /\ UNCHANGED <<records, nextId, clock, workers, client, returned, deleted, lastAdded>>
    /\ LET v == Validate(data)
       IN  IF v.status # 0
           THEN /\ resp' = Response("POST", v.status, v.msg, v.field, data, Absent, 0)
                /\ UNCHANGED <<pool, reqs>>
           ELSE \E c \in get_connection :
                    IF c # "ok"
                    THEN /\ resp' = Response("POST", 500, "Database error", "", data, Absent, 0)
                         /\ UNCHANGED <<pool, reqs>>
                    ELSE /\ pool' = pool - 1
                         /\ resp' = NoResp
                         /\ LET r == [Request("POST", "execute", data, Absent, 0) EXCEPT
                                        !.floor = MaxOf(returned)]
                            IN  Begin(IF ValuesBuild(data) THEN r
                                      ELSE Fail(r, "rollback", "AttributeError"))

\* cursor.execute(INSERT ...) and cursor.lastrowid; a failed INSERT may have
\* taken its AUTO_INCREMENT value
AddReviewExecute(r) ==
    /\ r.op = "POST" /\ r.pc = "execute"
    /\ nextId <= MaxId
    /\ resp' = NoResp
    /\ UNCHANGED <<clock, pool, workers, client, returned, deleted>>
    /\ \E e \in Statement, taken \in {0, 1} :
          IF e = "ok"
          THEN /\ taken = 1
               /\ nextId' = nextId + 1
               /\ Step(r, [r EXCEPT !.pc = "commit",
                                    !.row = InsertedRow(AutoIncrement, r.data, clock)])
               /\ records' = IF autocommit
                             THEN InsertInto(records, InsertedRow(AutoIncrement, r.data, clock))
                             ELSE records
               /\ lastAdded' = IF autocommit THEN [id |-> AutoIncrement, ret |-> FALSE]
                               ELSE lastAdded
          ELSE /\ nextId' = nextId + taken
               /\ Step(r, Fail(r, "rollback", "Database error"))
               /\ UNCHANGED <<records, lastAdded>>

\* conn.commit() and the 201 response
AddReviewCommit(r) ==
    /\ r.op = "POST" /\ r.pc = "commit"
    /\ resp' = NoResp
    /\ UNCHANGED <<nextId, clock, pool, workers, client, returned, deleted>>
    /\ \E e \in Statement :
          IF e = "ok"
          THEN /\ records' = InsertInto(records, r.row)
               /\ lastAdded' = [id |-> r.row.id, ret |-> FALSE]
               /\ Step(r, [r EXCEPT !.pc = "close", !.status = 201])
          ELSE /\ Step(r, Fail(r, "rollback", "Database error"))
               /\ UNCHANGED <<records, lastAdded>>

\* the except blocks: conn.rollback()
AddReviewRollback(r) ==
    /\ r.op = "POST" /\ r.pc = "rollback"
    /\ resp' = NoResp
    /\ Step(r, RollbackOf(r))
    /\ UNCHANGED <<records, nextId, clock, pool, workers, client, returned, deleted, lastAdded>>

\* the finally block and the return
AddReviewClose(r) ==
    /\ r.op = "POST"
    /\ Finally(r)
    /\ returned' = IF r.status = 201 THEN returned \cup {r.row.id} ELSE returned
    /\ lastAdded' = IF r.status = 201 /\ lastAdded.id = r.row.id
                    THEN [lastAdded EXCEPT !.ret = TRUE] ELSE lastAdded
    /\ UNCHANGED <<records, nextId, clock, workers, client, deleted>>

----------------------------------------------------------------------------
(* GET /api/reviews: get_reviews *)

\* the limit argument, its range check, get_connection and cursor
GetReviewsBegin(q) ==
    /\ Holding < workers
    /\ UNCHANGED <<records, nextId, clock, workers, client, returned, deleted, lastAdded>>
    /\ IF ~LimitInRange(ArgLimit(q))
       THEN /\ resp' = Response("GET", 400, "Limit must be between 1 and 100", "", NoData,
                                q, ArgLimit(q))
            /\ UNCHANGED <<pool, reqs>>
       ELSE \E c \in get_connection :
                IF c # "ok"
                THEN /\ resp' = Response("GET", 500, "Database error", "", NoData, q,
                                         ArgLimit(q))
                     /\ UNCHANGED <<pool, reqs>>
                ELSE /\ pool' = pool - 1
                     /\ resp' = NoResp
                     /\ Begin([Request("GET", "set", NoData, q, ArgLimit(q)) EXCEPT
                                 !.mark = IF lastAdded.ret THEN lastAdded.id ELSE 0])

\* cursor.execute("SET SESSION TRANSACTION ISOLATION LEVEL READ COMMITTED")
GetReviewsSetSession(r) ==
    /\ r.op = "GET" /\ r.pc = "set"
    /\ resp' = NoResp
    /\ UNCHANGED <<records, nextId, clock, pool, workers, client, returned, deleted, lastAdded>>
    /\ \E e \in Statement :
          Step(r, IF e = "ok" THEN [r EXCEPT !.pc = "select"]
                  ELSE Fail(r, "close", "Database error"))

\* cursor.execute(SELECT ... ORDER BY created_at DESC LIMIT %s) and fetchall():
\* READ COMMITTED reads the rows committed at the statement
GetReviewsSelect(r) ==
    /\ r.op = "GET" /\ r.pc = "select"
    /\ resp' = NoResp
    /\ UNCHANGED <<records, nextId, clock, pool, workers, client, returned, deleted, lastAdded>>
    /\ \E e \in Statement, rows \in SelectReviews(records, r.arg) :
          Step(r, IF e = "ok"
                  THEN [r EXCEPT !.pc = "close", !.status = 200, !.rows = rows,
                                 !.mark = IF lastAdded = [id |-> r.mark, ret |-> TRUE]
                                          THEN r.mark ELSE 0]
                  ELSE Fail([r EXCEPT !.mark = 0], "close", "Database error"))

\* the finally block and the return
GetReviewsClose(r) ==
    /\ r.op = "GET"
    /\ Finally(r)
    /\ UNCHANGED <<records, nextId, clock, workers, client, returned, deleted, lastAdded>>

----------------------------------------------------------------------------
(* DELETE /api/reviews/<id>: delete_review *)

\* get_connection and cursor
DeleteReviewBegin(id) ==
    /\ Holding < workers
    /\ UNCHANGED <<records, nextId, clock, workers, client, returned, deleted, lastAdded>>
    /\ \E c \in get_connection :
          IF c # "ok"
          THEN /\ resp' = Response("DELETE", 500, "Database error", "", NoData, Absent, id)
               /\ UNCHANGED <<pool, reqs>>
          ELSE /\ pool' = pool - 1
               /\ resp' = NoResp
               /\ Begin(Request("DELETE", "execute", NoData, Absent, id))

\* cursor.execute(DELETE FROM reviews WHERE id = %s): waits for the row's lock
\* (or fails on the lock wait), then cursor.rowcount is the rows it matched
DeleteReviewExecute(r) ==
    /\ r.op = "DELETE" /\ r.pc = "execute"
    /\ resp' = NoResp
    /\ UNCHANGED <<nextId, clock, pool, workers, client, returned, deleted>>
    /\ \E e \in Statement :
          IF e = "ok"
          THEN /\ ~Locked(r.arg)
               /\ Step(r, [r EXCEPT !.pc = "commit",
                                    !.hit = Cardinality(RowWithId(records, r.arg)),
                                    !.mark = IF RowWithId(records, r.arg) # {} THEN 1 ELSE 0])
               /\ records' = IF autocommit THEN DeleteFrom(records, r.arg) ELSE records
               /\ lastAdded' = IF autocommit /\ RowWithId(records, r.arg) # {}
                               THEN NoAdded ELSE lastAdded
          ELSE /\ Step(r, Fail(r, "rollback", "Database error"))
               /\ UNCHANGED <<records, lastAdded>>

\* conn.commit(), then the 404 on rowcount 0 or the 200
DeleteReviewCommit(r) ==
    /\ r.op = "DELETE" /\ r.pc = "commit"
    /\ resp' = NoResp
    /\ UNCHANGED <<nextId, clock, pool, workers, client, returned, deleted>>
    /\ \E e \in Statement :
          IF e = "ok"
          THEN /\ records' = IF r.hit = 0 THEN records ELSE DeleteFrom(records, r.arg)
               /\ lastAdded' = IF r.hit = 0 THEN lastAdded ELSE NoAdded
               /\ Step(r, [r EXCEPT !.pc = "close", !.status = DeleteStatus(r.hit)])
          ELSE /\ Step(r, Fail(r, "rollback", "Database error"))
               /\ UNCHANGED <<records, lastAdded>>

\* the except blocks: conn.rollback()
DeleteReviewRollback(r) ==
    /\ r.op = "DELETE" /\ r.pc = "rollback"
    /\ resp' = NoResp
    /\ Step(r, RollbackOf(r))
    /\ UNCHANGED <<records, nextId, clock, pool, workers, client, returned, deleted, lastAdded>>

\* the finally block and the return
DeleteReviewClose(r) ==
    /\ r.op = "DELETE"
    /\ Finally(r)
    /\ deleted' = IF r.status = 200 THEN deleted \cup {r.arg} ELSE deleted
    /\ UNCHANGED <<records, nextId, clock, workers, client, returned, lastAdded>>

----------------------------------------------------------------------------
(* GET /api/stats: get_stats *)

ReadLatest(r, first) == records

\* the rows a SELECT of the request reads: the connection runs without
\* autocommit at InnoDB's REPEATABLE READ, so the first SELECT of the
\* transaction fixes the view the later ones read
ReadView(r, first) == IF first THEN records ELSE r.snap

\* get_connection and cursor
GetStatsBegin ==
    /\ Holding < workers
    /\ UNCHANGED <<records, nextId, clock, workers, client, returned, deleted, lastAdded>>
    /\ \E c \in get_connection :
          IF c # "ok"
          THEN /\ resp' = Response("STATS", 500, "Database error", "", NoData, Absent, 0)
               /\ UNCHANGED <<pool, reqs>>
          ELSE /\ pool' = pool - 1
               /\ resp' = NoResp
               /\ Begin(Request("STATS", "count", NoData, Absent, 0))

\* SELECT COUNT(*) as total
GetStatsCount(r) ==
    /\ r.op = "STATS" /\ r.pc = "count"
    /\ resp' = NoResp
    /\ UNCHANGED <<records, nextId, clock, pool, workers, client, returned, deleted, lastAdded>>
    /\ \E e \in Statement :
          Step(r, IF e = "ok"
                  THEN [r EXCEPT !.pc = "avg", !.snap = ReadView(r, TRUE),
                                 !.total = CountRows(ReadView(r, TRUE))]
                  ELSE Fail(r, "close", "Database error"))

\* SELECT AVG(rating) as avg_rating, and `or 0`
GetStatsAvg(r) ==
    /\ r.op = "STATS" /\ r.pc = "avg"
    /\ resp' = NoResp
    /\ UNCHANGED <<records, nextId, clock, pool, workers, client, returned, deleted, lastAdded>>
    /\ \E e \in Statement :
          Step(r, IF e = "ok"
                  THEN [r EXCEPT !.pc = "dist",
                                 !.avg = IF AvgRating(ReadView(r, FALSE)) < 0 THEN 0
                                         ELSE Round2(AvgRating(ReadView(r, FALSE)))]
                  ELSE Fail([r EXCEPT !.total = 0], "close", "Database error"))

\* SELECT rating, COUNT(*) ... GROUP BY rating, and the 200 response
GetStatsDist(r) ==
    /\ r.op = "STATS" /\ r.pc = "dist"
    /\ resp' = NoResp
    /\ UNCHANGED <<records, nextId, clock, pool, workers, client, returned, deleted, lastAdded>>
    /\ \E e \in Statement :
          Step(r, IF e = "ok"
                  THEN [r EXCEPT !.pc = "close", !.status = 200, !.snap = {},
                                 !.dist = RatingDist(ReadView(r, FALSE))]
                  ELSE Fail([r EXCEPT !.total = 0, !.avg = 0, !.snap = {}], "close",
                            "Database error"))

GetStatsCloseTakesId(r) ==
    /\ r.op = "STATS"
    /\ Finally(r)
    /\ nextId' = nextId + 1
    /\ UNCHANGED <<records, clock, workers, client, returned, deleted, lastAdded>>

\* the finally block and the return
GetStatsClose(r) ==
    /\ r.op = "STATS"
    /\ Finally(r)
    /\ UNCHANGED <<records, nextId, clock, workers, client, returned, deleted, lastAdded>>

----------------------------------------------------------------------------
(* GET /api/health: health_check *)

\* get_connection and cursor
HealthCheckBegin ==
    /\ Holding < workers
    /\ UNCHANGED <<records, nextId, clock, workers, client, returned, deleted, lastAdded>>
    /\ \E c \in get_connection :
          IF c # "ok"
          THEN /\ resp' = Response("HEALTH", 500, "unhealthy", "", NoData, Absent, 0)
               /\ UNCHANGED <<pool, reqs>>
          ELSE /\ pool' = pool - 1
               /\ resp' = NoResp
               /\ Begin(Request("HEALTH", "select1", NoData, Absent, 0))

\* SELECT 1
HealthCheckSelect1(r) ==
    /\ r.op = "HEALTH" /\ r.pc = "select1"
    /\ resp' = NoResp
    /\ UNCHANGED <<records, nextId, clock, pool, workers, client, returned, deleted, lastAdded>>
    /\ \E e \in Statement :
          Step(r, IF e = "ok" THEN [r EXCEPT !.pc = "count"]
                  ELSE Fail(r, "close", "unhealthy"))

\* SELECT COUNT(*) FROM reviews, and the 200 response
HealthCheckCount(r) ==
    /\ r.op = "HEALTH" /\ r.pc = "count"
    /\ resp' = NoResp
    /\ UNCHANGED <<records, nextId, clock, pool, workers, client, returned, deleted, lastAdded>>
    /\ \E e \in Statement :
          Step(r, IF e = "ok"
                  THEN [r EXCEPT !.pc = "close", !.status = 200,
                                 !.total = CountRows(ReadView(r, TRUE))]
                  ELSE Fail(r, "close", "unhealthy"))

\* the finally block and the return
HealthCheckClose(r) ==
    /\ r.op = "HEALTH"
    /\ Finally(r)
    /\ UNCHANGED <<records, nextId, clock, workers, client, returned, deleted, lastAdded>>

----------------------------------------------------------------------------
(* The server's clock *)

Tick ==
    /\ clock < StartClock + MaxTicks
    /\ clock' = clock + 1
    /\ resp' = NoResp
    /\ UNCHANGED <<records, nextId, pool, reqs, workers, client, returned, deleted, lastAdded>>

----------------------------------------------------------------------------
(* Specifications *)

\* the state once init_database() has run and the pool is full
InitWith(n, bodies, limits, ids) ==
    /\ records = {}
    /\ nextId = 1
    /\ clock = StartClock
    /\ pool = PoolSize
    /\ reqs = EmptyBag
    /\ workers = n
    /\ client = [bodies |-> bodies, limits |-> limits, ids |-> ids]
    /\ resp = NoResp
    /\ returned = {}
    /\ deleted = {}
    /\ lastAdded = NoAdded

\* two deployments: a few handler threads and clients of every endpoint, or
\* one thread more than the pool has connections and clients that only read
Init ==
    \/ InitWith(MaxWorkers, NarrowBodies, NarrowLimits, NarrowIds)
    \/ InitWith(PoolSize + 1, {}, {Absent}, {})

\* one handler thread; the clients send the base body and one more body, or
\* one limit argument, drawn from the wide input sets
InitSeq ==
    \E data \in WideBodies, q \in WideLimits :
        /\ data = BaseBody \/ q = Absent
        /\ InitWith(1, {BaseBody, data}, {q}, ReviewIds)

Next ==
    \/ \E data \in client.bodies : AddReviewBegin(data)
    \/ \E r \in InFlight : AddReviewExecute(r)
    \/ \E r \in InFlight : AddReviewCommit(r)
    \/ \E r \in InFlight : AddReviewRollback(r)
    \/ \E r \in InFlight : AddReviewClose(r)
    \/ \E q \in client.limits : GetReviewsBegin(q)
    \/ \E r \in InFlight : GetReviewsSetSession(r)
    \/ \E r \in InFlight : GetReviewsSelect(r)
    \/ \E r \in InFlight : GetReviewsClose(r)
    \/ \E id \in client.ids : DeleteReviewBegin(id)
    \/ \E r \in InFlight : DeleteReviewExecute(r)
    \/ \E r \in InFlight : DeleteReviewCommit(r)
    \/ \E r \in InFlight : DeleteReviewRollback(r)
    \/ \E r \in InFlight : DeleteReviewClose(r)
    \/ GetStatsBegin
    \/ \E r \in InFlight : GetStatsCount(r)
    \/ \E r \in InFlight : GetStatsAvg(r)
    \/ \E r \in InFlight : GetStatsDist(r)
    \/ \E r \in InFlight : GetStatsClose(r)
    \/ HealthCheckBegin
    \/ \E r \in InFlight : HealthCheckSelect1(r)
    \/ \E r \in InFlight : HealthCheckCount(r)
    \/ \E r \in InFlight : HealthCheckClose(r)
    \/ Tick

\* concurrent handler threads over the narrow inputs
Spec == Init /\ [][Next]_vars

\* one handler thread over the wide inputs
SpecSeq == InitSeq /\ [][Next]_vars

\* the lists of ratings of length n
RatingsOfLen(n) == [1..n -> MinRating..MaxRating]

\* n ratings, k of them 2 and the others 1
Mixed(n, k) == [i \in 1..n |-> IF i <= k THEN 2 ELSE 1]

Scenario == <<5, 5, 4, 3, 1>>

RatingLists ==
    UNION {RatingsOfLen(n) : n \in 0..MaxRatings}
    \cup {Scenario}
    \cup {Mixed(TieRecords, k) : k \in 0..TieRecords}
    \cup {Mixed(ManyRecords, k) : k \in 0..ManyRecords}

\* the table after one accepted POST per rating of the list, all within the
\* second the model starts at, and one handler thread that serves GET /api/stats
InitStats ==
    \E l \in RatingLists :
        /\ records = {InsertedRow(i, [BaseBody EXCEPT !["rating"] = JInt(l[i])], StartClock) :
                          i \in 1..Len(l)}
        /\ nextId = Len(l) + 1
        /\ clock = StartClock
        /\ pool = PoolSize
        /\ reqs = EmptyBag
        /\ workers = 1
        /\ client = [bodies |-> {}, limits |-> {Absent}, ids |-> {}]
        /\ resp = NoResp
        /\ returned = 1..Len(l)
        /\ deleted = {}
        /\ lastAdded = NoAdded

NextStats ==
    \/ GetStatsBegin
    \/ \E r \in InFlight : GetStatsCount(r)
    \/ \E r \in InFlight : GetStatsAvg(r)
    \/ \E r \in InFlight : GetStatsDist(r)
    \/ \E r \in InFlight : GetStatsClose(r)

\* GET /api/stats over tables of many sizes
SpecStats == InitStats /\ [][NextStats]_vars

----------------------------------------------------------------------------
(* Properties *)

\* the requests a step has put in flight or moved on
Moved == {q \in BagToSet(reqs') : CopiesIn(q, reqs') > CopiesIn(q, reqs)}

IdsOf(rows) == {rows[i].id : i \in 1..Len(rows)}

ClaimOrder == <<"name", "email", "phone", "rating", "review">>

\* a field that is absent, or text of nothing but whitespace
ClaimBlank(v) == v = Absent \/ (v.t = "str" /\ \A i \in 1..Len(v.s) : v.s[i] \in Whitespace)

ClaimHasBlank(data) == \E i \in 1..5 : ClaimBlank(data[ClaimOrder[i]])

ClaimFirstBlank(data) ==
    ClaimOrder[CHOOSE i \in 1..5 :
        /\ ClaimBlank(data[ClaimOrder[i]])
        /\ \A j \in 1..(i - 1) : ~ClaimBlank(data[ClaimOrder[j]])]

\* an integer in 1..5, as a JSON number or as its text
ClaimRatingOk(v) ==
    \E k \in 1..5 :
        \/ v = JInt(k)
        \/ v.t = "str" /\ SelectSeq(v.s, LAMBDA c : c \notin Whitespace) = <<DigitChars[k + 1]>>

ClaimOthersValid(data) ==
    /\ \A f \in TextFields : data[f].t = "str" /\ ~ClaimBlank(data[f])
    /\ data["gender"].t \in {"absent", "str"}

ClaimTextGeq(a, b) == a[1] > b[1] \/ (a[1] = b[1] /\ a[2] >= b[2])

\* limit arguments that are no integer in 1..100
BadLimits ==
    {JStr(<<>>), JStr(<<"0">>), JStr(<<"1", "0", "1">>), JStr(<<"-", "1">>),
     JStr(<<"a", "b", "c">>), JStr(<<"1", ".", "5">>)}

\* C1: a GET that starts after a POST has returned 201 with id i, and whose
\* SELECT runs before any other write commits, returns a list that holds the
\* record with id i, whatever its limit.
C1_AddedReviewIsListed ==
    \A r \in InFlight :
        (r.op = "GET" /\ r.pc = "close" /\ r.status = 200 /\ r.mark # 0)
            => r.mark \in IdsOf(r.rows)

\* C2: the id a POST returns with 201 is greater than every id returned by a
\* POST that had completed when it began, and no id is returned twice;
\* failed POSTs and deletions in between do not change that.
C2_IdsStrictlyIncrease ==
    /\ (resp.op = "POST" /\ resp.status = 201) => resp.id > resp.floor
    /\ \A r \in InFlight :
          (r.op = "POST" /\ r.row # NoRow) =>
              /\ r.row.id > r.floor
              /\ r.row.id \notin returned
              /\ \A q \in InFlight : (q.op = "POST" /\ q.row.id = r.row.id) => q = r
              /\ CopiesIn(r, reqs) = 1

C2_Witness ==
    /\ resp.op = "POST" /\ resp.status = 201
    /\ resp.floor = 1 /\ resp.id = 2
    /\ 1 \in deleted
    /\ RowWithId(records, 1) = {}

\* C3: a POST whose body lacks a required field, or carries it blank, is
\* answered 400 with the first such field of name, email, phone, rating,
\* review named in the message; it takes no connection from the pool and the
\* record set stays as it was.
C3_MissingFieldRejected ==
    [][ /\ \A r \in BagToSet(reqs') : r.op = "POST" => ~ClaimHasBlank(r.data)
        /\ (resp'.op = "POST" /\ ClaimHasBlank(resp'.data)) =>
              /\ resp'.status = 400
              /\ resp'.msg = "Missing or empty field"
              /\ resp'.field = ClaimFirstBlank(resp'.data)
              /\ pool' = pool /\ reqs' = reqs
              /\ records' = records /\ nextId' = nextId ]_vars

C3_Witness ==
    /\ resp.op = "POST" /\ resp.status = 400
    /\ resp.field = "email"
    /\ ClaimBlank(resp.data["phone"]) \/ ClaimBlank(resp.data["review"])
    /\ records # {}
    /\ pool = PoolSize

\* C4: a POST whose rating is no integer in 1..5, its other fields valid, is
\* answered 400 and never reaches the database.
C4_BadRatingRejected ==
    /\ \A r \in InFlight :
          (r.op = "POST" /\ ClaimOthersValid(r.data)) => ClaimRatingOk(r.data["rating"])
    /\ (resp.op = "POST" /\ ClaimOthersValid(resp.data)
            /\ ~ClaimRatingOk(resp.data["rating"])) => resp.status = 400

\* C5: a GET answered 200 under limit N, N in 1..100, returns min(N, number
\* of records) distinct records, each created_at at or after the next one's.
C5_ListLimitedAndOrdered ==
    (resp.op = "GET" /\ resp.status = 200) =>
        /\ resp.arg \in 1..100
        /\ Len(resp.rows) =
              IF Cardinality(records) < resp.arg THEN Cardinality(records) ELSE resp.arg
        /\ \A i \in 1..Len(resp.rows) :
              \E x \in records : resp.rows[i] = [x EXCEPT !.created_at = strftime(@)]
        /\ \A i, j \in 1..Len(resp.rows) : i # j => resp.rows[i].id # resp.rows[j].id
        /\ \A i \in 1..(Len(resp.rows) - 1) :
              ClaimTextGeq(resp.rows[i].created_at, resp.rows[i + 1].created_at)

C5_Witness ==
    /\ resp.op = "GET" /\ resp.status = 200
    /\ resp.arg = 1
    /\ Cardinality(records) = 2
    /\ \E x, y \in records : x.created_at < y.created_at

\* C6: a GET whose limit argument is no integer in 1..100 is answered 400
\* with no records; no other limit is used in its place.
C6_BadLimitRejected ==
    /\ \A r \in InFlight : r.op = "GET" => r.q \notin BadLimits
    /\ (resp.op = "GET" /\ resp.q \in BadLimits) => (resp.status = 400 /\ resp.rows = <<>>)

\* a statement or the commit of the request raised mysql.connector.Error
MediumFailed(r) == r.status = 500 /\ r.msg = "Database error"

\* C7: a DELETE whose statement finds the id in the record set, and which
\* meets no database failure, returns 200; the step that removes a row removes
\* that one row and keeps every other; once a DELETE of an id has returned 200
\* the id never shows again, a SELECT of GET /api/reviews does not list it, and
\* a later DELETE of it returns 404.
C7_DeleteRemovesExactlyThatRecord ==
    [][ /\ \A q \in Moved :
              (q.op = "DELETE" /\ q.pc = "close" /\ q.mark = 1 /\ ~MediumFailed(q)) =>
                  /\ q.status = 200
                  /\ records' = records \ {x \in records : x.id = q.arg}
                  /\ Cardinality(records') = Cardinality(records) - 1
        /\ \A q \in Moved :
              (q.op = "DELETE" /\ q.pc = "close" /\ q.arg \in deleted /\ ~MediumFailed(q)) =>
                  q.status = 404
        /\ \A q \in Moved :
              (q.op = "GET" /\ q.pc = "close" /\ q.status = 200) =>
                  IdsOf(q.rows) \cap deleted = {}
        /\ \A x \in records' : x.id \notin deleted' ]_vars

C7_Witness ==
    /\ resp.op = "DELETE" /\ resp.status = 404 /\ resp.arg = 1
    /\ 1 \in deleted
    /\ \E x \in records : x.id = 2

\* C8: a DELETE whose statement finds no record of the id returns 404, or 500
\* when the database failed, never 200, and its commit leaves the record set
\* as it was.
C8_DeleteOfAbsentIdIs404 ==
    [][ \A q \in Moved :
          (q.op = "DELETE" /\ q.pc = "close" /\ q.mark = 0) =>
              /\ q.status = 404 \/ MediumFailed(q)
              /\ records' = records ]_vars

C8_Witness ==
    /\ resp.op = "DELETE" /\ resp.status = 404 /\ resp.mark = 0
    /\ resp.arg \notin deleted
    /\ records # {}

\* C9: the record set changes only in the step that settles a POST as 201,
\* adding its row alone, or a DELETE as 200, removing its row alone; a request
\* that ends 500 has changed nothing that a read can see.
C9_FailedWriteLeavesNoTrace ==
    [][ /\ records' # records =>
              \E q \in Moved :
                  /\ q.pc = "close"
                  /\ \/ q.op = "POST" /\ q.status = 201 /\ q.row \notin records
                        /\ records' = records \cup {q.row}
                     \/ q.op = "DELETE" /\ q.status = 200
                        /\ records' = records \ {x \in records : x.id = q.arg}
        /\ \A q \in InFlight :
              (q.pc = "close" /\ End(q)) => resp'.status = q.status ]_vars

C9_Witness ==
    /\ \E r \in InFlight :
          /\ r.op = "POST" /\ r.pc = "rollback" /\ r.status = 500
          /\ r.row # NoRow /\ r.row \notin records
    /\ \E r \in InFlight :
          /\ r.op = "DELETE" /\ r.pc = "rollback" /\ r.status = 500
          /\ r.hit = 1 /\ RowWithId(records, r.arg) # {}

\* C10: every request in flight holds one connection and every connection it
\* took is back in the pool when its response goes out: the connections
\* checked out are as many as the requests in flight, never more than the
\* pool's five, and none when no request is in flight.
C10_ConnectionsAreReleased ==
    /\ pool \in 0..PoolSize
    /\ PoolSize - pool = Holding
    /\ reqs = EmptyBag => pool = PoolSize

C10_Witness ==
    /\ pool = 0
    /\ resp.status = 500
    /\ Holding = PoolSize

\* number of records of rating k
ClaimCount(S, k) == Cardinality({x \in S : x.rating = k})

\* sum of the ratings, from the five counts
ClaimSum(count) == count[1] + 2 * count[2] + 3 * count[3] + 4 * count[4] + 5 * count[5]

\* avg hundredths is a hundredth nearest to sum / n
ClaimRounded(avg, sum, n) ==
    /\ 2 * (avg * n - 100 * sum) <= n
    /\ 2 * (100 * sum - avg * n) <= n

\* C11: a GET /api/stats answered 200 returns total_reviews equal to the
\* number of records and a rating_distribution with an entry for each of the
\* ratings 1..5, its value the number of records of that rating.
C11_StatsCountsRecords ==
    (resp.op = "STATS" /\ resp.status = 200) =>
        /\ resp.total = Cardinality(records)
        /\ DOMAIN resp.dist = 1..5
        /\ \A k \in 1..5 : resp.dist[k] = ClaimCount(records, k)

C11_Witness ==
    /\ resp.op = "STATS" /\ resp.status = 200
    /\ resp.total = 3
    /\ resp.dist[5] = 2 /\ resp.dist[2] = 1 /\ resp.dist[1] = 0

\* C12: with no record in the table, GET /api/stats, when the database does
\* not fail, returns 200 with total_reviews 0, average_rating 0 and the five
\* rating counts 0.
C12_EmptyStatsAreZero ==
    (resp.op = "STATS" /\ records = {}) =>
        /\ resp.status = 200 \/ MediumFailed(resp)
        /\ resp.status = 200 =>
              /\ resp.total = 0
              /\ resp.avg = 0
              /\ \A k \in 1..5 : resp.dist[k] = 0

C12_Witness ==
    /\ resp.op = "STATS" /\ resp.status = 200
    /\ records = {}
    /\ deleted # {}

\* C13: over a table that is not empty, the average_rating of a GET
\* /api/stats answered 200 is the sum of the ratings divided by the number of
\* records, rounded to two decimal places; the ratings 5, 5, 4, 3, 1 give
\* total 5, average 3.6 and the counts 2, 1, 1, 0, 1 for 5 down to 1.
C13_AverageIsRoundedMean ==
    (resp.op = "STATS" /\ resp.status = 200 /\ records # {}) =>
        /\ ClaimRounded(resp.avg, ClaimSum([k \in 1..5 |-> ClaimCount(records, k)]),
                        Cardinality(records))
        /\ [k \in 1..5 |-> ClaimCount(records, k)] = (1 :> 1 @@ 2 :> 0 @@ 3 :> 1 @@ 4 :> 1 @@ 5 :> 2)
              => (resp.total = 5 /\ resp.avg = 360
                  /\ resp.dist = (1 :> 1 @@ 2 :> 0 @@ 3 :> 1 @@ 4 :> 1 @@ 5 :> 2))

\* C14: a POST is answered 400 only when its payload fails validation and 500
\* only when the database failed; a payload that fails validation is never
\* answered 500; a request whose connection, statement or commit failed is
\* answered 500.
C14_ValidationApartFromMedium ==
    /\ (resp.op = "POST" /\ resp.status = 400) =>
          (ClaimHasBlank(resp.data) \/ ~ClaimRatingOk(resp.data["rating"])
              \/ ~ClaimOthersValid(resp.data))
    /\ (resp.op = "POST" /\ resp.status = 500) =>
          /\ resp.msg = "Database error"
          /\ ~ClaimHasBlank(resp.data)
          /\ ClaimRatingOk(resp.data["rating"])
          /\ ClaimOthersValid(resp.data)
    /\ \A r \in InFlight : MediumFailed(r) => r.pc \in {"rollback", "close"}
    /\ MediumFailed(resp) => resp.status = 500

\* C15: every row of the table, and every row an INSERT has written and not
\* yet committed, has a rating in 1..5.
C15_StoredRatingInRange ==
    /\ \A x \in records : x.rating \in 1..5
    /\ \A r \in InFlight : (r.op = "POST" /\ r.row # NoRow) => r.row.rating \in 1..5

C15_Witness ==
    /\ resp.op = "POST" /\ resp.status = 400
    /\ resp.data["rating"] \in {JInt(6), JInt(0), JStr(<<"-", "1">>)}
    /\ records # {}

\* C16: a step changes no field of a record of the table: a record of some id
\* after the step is the record of that id before it, no two records share an
\* id, and the rows a GET /api/reviews fetches are records of the table.
C16_RecordsAreImmutable ==
    [][ /\ \A x \in records : \A y \in records' : y.id = x.id => y = x
        /\ \A x, y \in records' : x.id = y.id => x = y
        /\ \A q \in Moved :
              (q.op = "GET" /\ q.pc = "close" /\ q.status = 200) =>
                  \A i \in 1..Len(q.rows) : q.rows[i] \in records ]_vars

C16_Witness ==
    /\ resp.op = "GET" /\ resp.status = 200
    /\ IdsOf(resp.rows) = {2}
    /\ 1 \in deleted
    /\ \E x \in records : x.id = 2 /\ x.created_at < clock

ReadOps == {"GET", "STATS", "HEALTH"}

\* C17: no step of GET /api/stats, GET /api/reviews or GET /api/health, on
\* its way to 200 or to an error, changes the table or the next id.
C17_ReadsHaveNoSideEffects ==
    [][ ((\E q \in Moved : q.op \in ReadOps) \/ resp'.op \in ReadOps) =>
            (records' = records /\ nextId' = nextId) ]_vars

C17_Witness ==
    /\ resp.op = "STATS" /\ resp.status = 500
    /\ records # {}
    /\ \E r \in InFlight : r.op = "POST" /\ r.pc = "commit"

\* C18: the record of a POST whose body has no gender has the gender "Not
\* specified", and the gender of every record is text.
C18_GenderIsText ==
    /\ \A r \in InFlight :
          (r.op = "POST" /\ r.row # NoRow /\ r.data["gender"] = Absent) =>
              r.row.gender = JStr(<<"N", "o", "t", " ", "s", "p", "e", "c", "i", "f", "i", "e", "d">>)
    /\ \A x \in records : x.gender.t = "str"

\* C19: the response of a GET /api/stats is consistent with itself, also
\* when POSTs and DELETEs commit between its three queries: total_reviews is
\* the sum of the five counts and average_rating is the rounded mean of the
\* ratings those counts stand for, 0 for none.
C19_StatsAreConsistent ==
    (resp.op = "STATS" /\ resp.status = 200) =>
        /\ resp.total = resp.dist[1] + resp.dist[2] + resp.dist[3] + resp.dist[4] + resp.dist[5]
        /\ IF resp.total = 0 THEN resp.avg = 0
           ELSE ClaimRounded(resp.avg, ClaimSum(resp.dist), resp.total)

C19_Witness ==
    \E r \in InFlight :
        /\ r.op = "STATS" /\ r.pc = "dist"
        /\ r.snap # records
        /\ r.total # Cardinality(records)

====
